---- MODULE Spec2Model ----
(***************************************************************************)
(* The three MNIST scripts of the repository, run one after another in one *)
(* working directory:                                                      *)
(*   docs/jobs/ai/mnist.py          trains a dense net, saves model.h5     *)
(*   docs/jobs/ai/convert_model.py  loads model.h5, exports public/model   *)
(*   scripts/train_mnist_model.py   trains a conv net, exports public/model*)
(* The state is the part of the file system the scripts touch, the         *)
(* position and local variables of the run in progress, and history        *)
(* variables recording which runs completed.                               *)
(***************************************************************************)
EXTENDS Integers, Sequences, FiniteSets

\* Number of script runs a behaviour may hold.
MaxRuns == 3

Scripts == {"mnist", "train", "convert"}

(***************************************************************************)
(* Literal parameters of the scripts.                                      *)
(***************************************************************************)
EpochsMnist == 3
EpochsTrain == 5

Epochs(s) == IF s = "mnist" THEN EpochsMnist ELSE EpochsTrain

InputShape == <<28, 28>>

\* tf.keras.Sequential([...]) of mnist.py
DenseLayers ==
  << [kind |-> "Flatten", units |-> 0, act |-> "none"],
     [kind |-> "Dense", units |-> 128, act |-> "relu"],
     [kind |-> "Dropout", units |-> 0, act |-> "none"],
     [kind |-> "Dense", units |-> 10, act |-> "softmax"] >>

\* tf.keras.Sequential([...]) of train_mnist_model.py
ConvLayers ==
  << [kind |-> "Reshape", units |-> 0, act |-> "none"],
     [kind |-> "Conv2D", units |-> 32, act |-> "relu"],
     [kind |-> "MaxPooling2D", units |-> 0, act |-> "none"],
     [kind |-> "Conv2D", units |-> 64, act |-> "relu"],
     [kind |-> "MaxPooling2D", units |-> 0, act |-> "none"],
     [kind |-> "Flatten", units |-> 0, act |-> "none"],
     [kind |-> "Dense", units |-> 128, act |-> "relu"],
     [kind |-> "Dropout", units |-> 0, act |-> "none"],
     [kind |-> "Dense", units |-> 10, act |-> "softmax"] >>

Arch(s) == IF s = "train" THEN "conv" ELSE "dense"

Layers(arch) == IF arch = "conv" THEN ConvLayers ELSE DenseLayers

RECURSIVE Prod(_)
Prod(shape) == IF shape = <<>> THEN 1 ELSE Head(shape) * Prod(Tail(shape))

\* Output shape of one layer applied to an input of the given shape.
OutShape(l, shape) ==
  CASE l.kind = "Flatten" -> <<Prod(shape)>>
    [] l.kind = "Reshape" -> <<shape[1], shape[2], 1>>
    [] l.kind = "Conv2D" -> <<shape[1], shape[2], l.units>>
    [] l.kind = "MaxPooling2D" -> <<shape[1] \div 2, shape[2] \div 2, shape[3]>>
    [] l.kind = "Dense" -> <<l.units>>
    [] OTHER -> shape

\* Trainable weights of one layer (3x3 kernels, biases included).
LayerParams(l, shape) ==
  CASE l.kind = "Conv2D" -> 3 * 3 * shape[3] * l.units + l.units
    [] l.kind = "Dense" -> shape[1] * l.units + l.units
    [] OTHER -> 0

RECURSIVE ParamsFrom(_, _, _)
ParamsFrom(layers, i, shape) ==
  IF i > Len(layers) THEN 0
  ELSE LayerParams(layers[i], shape)
         + ParamsFrom(layers, i + 1, OutShape(layers[i], shape))

Params(arch) == ParamsFrom(Layers(arch), 1, InputShape)

\* save_keras_model writes float32 weights in shards of at most 4 MiB.
ShardBytes == 4 * 1024 * 1024

NumShards(arch) == (4 * Params(arch) + ShardBytes - 1) \div ShardBytes

(***************************************************************************)
(* Files and in-memory values.                                             *)
(***************************************************************************)
NoFile == [kind |-> "absent", arch |-> "none", epochs |-> 0, trainedBy |-> 0]

\* An .h5 file whose writing was cut short.
Partial == [kind |-> "partial", arch |-> "none", epochs |-> 0, trainedBy |-> 0]

NoModel == [kind |-> "nomodel", arch |-> "none", epochs |-> 0, trainedBy |-> 0,
            compiled |-> FALSE]

NoArtifact == [kind |-> "absent", arch |-> "none", epochs |-> 0, trainedBy |-> 0,
               exporter |-> "none", by |-> 0, shards |-> 0]

NoExport == [exporter |-> "none", by |-> 0]

\* The checkpoint model.save writes for the in-memory model m.
Checkpoint(m) ==
  [kind |-> "h5", arch |-> m.arch, epochs |-> m.epochs, trainedBy |-> m.trainedBy]

\* The in-memory model load_model builds from checkpoint f.
Loaded(f) ==
  [kind |-> "model", arch |-> f.arch, epochs |-> f.epochs,
   trainedBy |-> f.trainedBy, compiled |-> TRUE]

\* The converted artifact of model m, exported by script s in run r.
Artifact(m, s, r) ==
  [kind |-> "tfjs", arch |-> m.arch, epochs |-> m.epochs, trainedBy |-> m.trainedBy,
   exporter |-> s, by |-> r, shards |-> NumShards(m.arch)]

EmptyDir == [dir |-> TRUE, json |-> NoArtifact, bin |-> NoArtifact]
NoDir == [dir |-> FALSE, json |-> NoArtifact, bin |-> NoArtifact]

\* A checkpoint left by a run of mnist.py that predates the behaviour.
OldCheckpoint ==
  [kind |-> "h5", arch |-> "dense", epochs |-> EpochsMnist, trainedBy |-> 0]

\* An export left by a run of script s that predates the behaviour.
OldArtifact(s) ==
  [kind |-> "tfjs", arch |-> Arch(s), epochs |-> Epochs(IF s = "train" THEN s ELSE "mnist"),
   trainedBy |-> 0, exporter |-> s, by |-> 0, shards |-> NumShards(Arch(s))]

(***************************************************************************)
(* The statements of each script, top to bottom.                           *)
(***************************************************************************)
\* mnist.py without its model.save statement.
ProgramNoSave(s) ==
  CASE s = "mnist" ->
         <<"load_data", "preprocess", "Sequential", "compile", "fit",
           "makedirs", "print">>
    [] s = "train" ->
         <<"load_data", "preprocess", "Sequential", "compile", "fit",
           "save_keras_model">>
    [] s = "convert" ->
         <<"load_model", "makedirs", "save_keras_model", "print">>
    [] OTHER -> <<>>

\* mnist.py feeding the raw 0..255 pixels to the model.
ProgramNoPreprocess(s) ==
  CASE s = "mnist" ->
         <<"load_data", "Sequential", "compile", "fit",
           "makedirs", "save", "print">>
    [] s = "train" ->
         <<"load_data", "preprocess", "Sequential", "compile", "fit",
           "save_keras_model">>
    [] s = "convert" ->
         <<"load_model", "makedirs", "save_keras_model", "print">>
    [] OTHER -> <<>>

\* convert_model.py creating its output directory before it loads its input.
ProgramMakedirsFirst(s) ==
  CASE s = "mnist" ->
         <<"load_data", "preprocess", "Sequential", "compile", "fit",
           "makedirs", "save", "print">>
    [] s = "train" ->
         <<"load_data", "preprocess", "Sequential", "compile", "fit",
           "save_keras_model">>
    [] s = "convert" ->
         <<"makedirs", "load_model", "save_keras_model", "print">>
    [] OTHER -> <<>>

Program(s) ==
  CASE s = "mnist" ->
         <<"load_data", "preprocess", "Sequential", "compile", "fit",
           "makedirs", "save", "print">>
    [] s = "train" ->
         <<"load_data", "preprocess", "Sequential", "compile", "fit",
           "save_keras_model">>
    [] s = "convert" ->
         <<"load_model", "makedirs", "save_keras_model", "print">>
    [] OTHER -> <<>>

VARIABLES
  mnist_model,   \* directory mnist_model exists
  model_h5,      \* content of mnist_model/model.h5
  public_model,  \* directory public/model: [dir, json, bin]
  script,        \* the script of the current (or last) run
  pc,            \* index into Program(script) of the next statement
  status,        \* "idle", "running", "done" or "failed"
  err,           \* "none", "lib" (a library call raised), "input" (no usable input file)
  run,           \* number of runs started
  data,          \* x_train/x_test: "none", "raw" (0..255) or "normalized" (0..1)
  model,         \* the script's variable model
  epoch,         \* passes completed by the fit call in progress
  trace,         \* statements the current run has entered, in order
  start,         \* the file system as the current run found it
  lastMnist,     \* checkpoint saved by the most recently completed mnist.py run
  saveFailed,    \* a mnist.py run failed in model.save since lastMnist was set
  lastExport,    \* the most recently completed run of an exporting script
  anyFailed      \* some run has failed

fsvars == <<mnist_model, model_h5, public_model>>
hist == <<lastMnist, saveFailed, lastExport>>
vars == <<mnist_model, model_h5, public_model, script, pc, status, err, run,
          data, model, epoch, trace, start, lastMnist, saveFailed, lastExport,
          anyFailed>>

Step == IF status = "running" THEN Program(script)[pc] ELSE "none"

FS == [mnist_model |-> mnist_model, model_h5 |-> model_h5,
       public_model |-> public_model]

Init ==
  /\ \E d \in {"absent", "empty", "old"} :
       /\ mnist_model = (d # "absent")
       /\ model_h5 = IF d = "old" THEN OldCheckpoint ELSE NoFile
  /\ \E p \in {"absent", "empty", "train", "convert"} :
       public_model =
         CASE p = "absent" -> NoDir
           [] p = "empty" -> EmptyDir
           [] OTHER -> [dir |-> TRUE, json |-> OldArtifact(p), bin |-> OldArtifact(p)]
  /\ script = "none"
  /\ pc = 1
  /\ status = "idle"
  /\ err = "none"
  /\ run = 0
  /\ data = "none"
  /\ model = NoModel
  /\ epoch = 0
  /\ trace = <<>>
  /\ start = FS
  /\ lastMnist = NoFile
  /\ saveFailed = FALSE
  /\ lastExport = NoExport
  /\ anyFailed = FALSE

(***************************************************************************)
(* Control flow: a statement either completes and hands over to the next   *)
(* one, or raises; nothing catches an exception, so the script ends there. *)
(***************************************************************************)
Enter(step) == trace' = Append(trace, step)

\* The statement at pc is the last one of the script.
Last == pc = Len(Program(script))

Advance ==
  /\ pc' = pc + 1
  /\ status' = IF Last THEN "done" ELSE "running"
  /\ lastMnist' = IF Last /\ script = "mnist" THEN Checkpoint(model) ELSE lastMnist
  /\ saveFailed' = IF Last /\ script = "mnist" THEN FALSE ELSE saveFailed
  /\ lastExport' = IF Last /\ script \in {"train", "convert"}
                     THEN [exporter |-> script, by |-> run]
                     ELSE lastExport
  /\ UNCHANGED <<err, anyFailed>>

\* An exception that leaves the statement to be executed again.
RaiseAndRetry(e) ==
  /\ pc' = pc
  /\ status' = "running"
  /\ err' = e
  /\ anyFailed' = TRUE
  /\ saveFailed' = (saveFailed \/ Program(script)[pc] = "save")
  /\ UNCHANGED <<lastMnist, lastExport>>

Raise(e) ==
  /\ pc' = pc
  /\ status' = "failed"
  /\ err' = e
  /\ anyFailed' = TRUE
  /\ saveFailed' = (saveFailed \/ Program(script)[pc] = "save")
  /\ UNCHANGED <<lastMnist, lastExport>>

\* python <script>: a new process, started once the previous one has ended.
Start(s) ==
  /\ status # "running"
  /\ run < MaxRuns
  /\ script' = s
  /\ run' = run + 1
  /\ pc' = 1
  /\ status' = "running"
  /\ err' = "none"
  /\ data' = "none"
  /\ model' = NoModel
  /\ epoch' = 0
  /\ trace' = <<>>
  /\ start' = FS
  /\ UNCHANGED <<fsvars, hist, anyFailed>>

\* (x_train, y_train), (x_test, y_test) = mnist.load_data()
LoadData ==
  /\ Step = "load_data"
  /\ Enter("load_data")
  /\ \E ok \in BOOLEAN :
       IF ok THEN data' = "raw" /\ Advance
             ELSE data' = data /\ Raise("lib")
  /\ UNCHANGED <<fsvars, script, run, model, epoch, start>>

\* x_train = x_train.astype('float32') / 255.0 (and x_test)
Preprocess ==
  /\ Step = "preprocess"
  /\ Enter("preprocess")
  /\ data' = IF data = "raw" THEN "normalized" ELSE data
  /\ Advance
  /\ UNCHANGED <<fsvars, script, run, model, epoch, start>>

\* model = tf.keras.Sequential([...])
Sequential ==
  /\ Step = "Sequential"
  /\ Enter("Sequential")
  /\ model' = [kind |-> "model", arch |-> Arch(script), epochs |-> 0,
               trainedBy |-> run, compiled |-> FALSE]
  /\ Advance
  /\ UNCHANGED <<fsvars, script, run, data, epoch, start>>

\* model.compile(optimizer='adam', ...)
Compile ==
  /\ Step = "compile"
  /\ Enter("compile")
  /\ model' = [model EXCEPT !.compiled = TRUE]
  /\ Advance
  /\ UNCHANGED <<fsvars, script, run, data, epoch, start>>

\* fit returning after a single pass.
FitReturnsEarly(s, e) == e >= 1

\* model.fit returns once it has made epochs passes.
FitReturns(s, e) == e = Epochs(s)

\* One pass of model.fit(x_train, y_train, epochs=..., ...)
Fit ==
  /\ Step = "fit"
  /\ trace' = IF epoch = 0 THEN Append(trace, "fit") ELSE trace
  /\ \E ok \in BOOLEAN :
       IF ok
         THEN /\ model' = [model EXCEPT !.epochs = model.epochs + 1]
              /\ IF FitReturns(script, epoch + 1)
                   THEN epoch' = 0 /\ Advance
                   ELSE /\ epoch' = epoch + 1
                        /\ UNCHANGED <<pc, status, err, anyFailed, hist>>
         ELSE UNCHANGED <<model, epoch>> /\ Raise("lib")
  /\ UNCHANGED <<fsvars, script, run, data, start>>

\* os.makedirs('mnist_model', exist_ok=True) in mnist.py,
\* os.makedirs('public/model', exist_ok=True) in convert_model.py
MakeDirs ==
  /\ Step = "makedirs"
  /\ Enter("makedirs")
  /\ \E ok \in BOOLEAN :
       IF ok
         THEN /\ mnist_model' = IF script = "mnist" THEN TRUE ELSE mnist_model
              /\ public_model' = IF script = "convert"
                                   THEN [public_model EXCEPT !.dir = TRUE]
                                   ELSE public_model
              /\ Advance
         ELSE UNCHANGED <<mnist_model, public_model>> /\ Raise("lib")
  /\ UNCHANGED <<model_h5, script, run, data, model, epoch, start>>

\* model.save writing somewhere other than mnist_model/model.h5.
SaveElsewhere(old, m) == old

\* mnist_model/model.h5 after a successful model.save('mnist_model/model.h5').
SaveResult(old, m) == Checkpoint(m)

\* model.save('mnist_model/model.h5'): the file is opened for writing, which
\* truncates it, and then filled; a failure leaves the old file or a cut one.
Save ==
  /\ Step = "save"
  /\ Enter("save")
  /\ \E ok \in (IF mnist_model THEN BOOLEAN ELSE {FALSE}) :
       IF ok
         THEN model_h5' = SaveResult(model_h5, model) /\ Advance
         ELSE model_h5' \in {model_h5, Partial} /\ Raise("lib")
  /\ UNCHANGED <<mnist_model, public_model, script, run, data, model, epoch, start>>

\* load_model accepting whatever is, or is not, at the path.
CanLoadAnything(f) == TRUE

\* load_model needs a complete checkpoint file at the path.
CanLoad(f) == f.kind = "h5"

\* model = tf.keras.models.load_model('mnist_model/model.h5')
LoadModel ==
  /\ Step = "load_model"
  /\ Enter("load_model")
  /\ IF CanLoad(model_h5)
       THEN \E ok \in BOOLEAN :
              IF ok THEN model' = Loaded(model_h5) /\ Advance
                    ELSE model' = model /\ Raise("lib")
       ELSE model' = model /\ Raise("input")
  /\ UNCHANGED <<fsvars, script, run, data, epoch, start>>

\* save_keras_model writing the topology but no weight file.
ExportNoWeights(pm, art) == [dir |-> TRUE, json |-> art, bin |-> pm.bin]

\* save_keras_model keeping the files an earlier export left.
ExportNoOverwrite(pm, art) ==
  IF pm.json.kind = "tfjs" THEN pm ELSE [dir |-> TRUE, json |-> art, bin |-> art]

\* public/model after a successful save_keras_model: the directory is created
\* when missing, the weight shards and model.json are written over old ones.
ExportResult(pm, art) == [dir |-> TRUE, json |-> art, bin |-> art]

\* What a failing save_keras_model may leave: nothing new, the directory
\* only, or the weight shards without the model.json written after them.
ExportFailures(pm, art) ==
  {pm, [pm EXCEPT !.dir = TRUE], [pm EXCEPT !.dir = TRUE, !.bin = art]}

\* tfjs.converters.save_keras_model(model, 'public/model')
SaveKerasModel ==
  /\ Step = "save_keras_model"
  /\ Enter("save_keras_model")
  /\ \E ok \in BOOLEAN :
       IF ok
         THEN /\ public_model' = ExportResult(public_model, Artifact(model, script, run))
              /\ Advance
         ELSE /\ public_model' \in ExportFailures(public_model, Artifact(model, script, run))
              /\ Raise("lib")
  /\ UNCHANGED <<mnist_model, model_h5, script, run, data, model, epoch, start>>

\* print("Model saved successfully!") / print("Model converted successfully!")
FinalPrint ==
  /\ Step = "print"
  /\ Enter("print")
  /\ Advance
  /\ UNCHANGED <<fsvars, script, run, data, model, epoch, start>>

Next ==
  \/ \E s \in Scripts : Start(s)
  \/ LoadData
  \/ Preprocess
  \/ Sequential
  \/ Compile
  \/ Fit
  \/ MakeDirs
  \/ Save
  \/ LoadModel
  \/ SaveKerasModel
  \/ FinalPrint

Spec == Init /\ [][Next]_vars

TypeOK ==
  /\ mnist_model \in BOOLEAN
  /\ model_h5.kind \in {"absent", "partial", "h5"}
  /\ public_model.dir \in BOOLEAN
  /\ script \in Scripts \cup {"none"}
  /\ status \in {"idle", "running", "done", "failed"}
  /\ err \in {"none", "lib", "input"}
  /\ run \in 0..MaxRuns
  /\ data \in {"none", "raw", "normalized"}
  /\ epoch \in 0..EpochsTrain

(***************************************************************************)
(* Auxiliary operators of the properties.                                  *)
(***************************************************************************)
NoDup(seq) == \A i, j \in 1..Len(seq) : seq[i] = seq[j] => i = j

IsPrefix(a, b) == Len(a) <= Len(b) /\ SubSeq(b, 1, Len(a)) = a

InTrace(step) == \E i \in 1..Len(trace) : trace[i] = step

\* The pipeline stage of section 2 of the specification a statement belongs to.
StageOf(step) ==
  CASE step = "load_data" -> "data loader"
    [] step = "preprocess" -> "preprocessor"
    [] step \in {"Sequential", "compile"} -> "model builder"
    [] step = "fit" -> "trainer"
    [] step \in {"makedirs", "save", "save_keras_model"} -> "exporter"
    [] step = "load_model" -> "checkpoint loader"
    [] OTHER -> "report"

\* The stages a sequence of statements goes through: consecutive statements
\* of one stage count once, the final print is no stage.
RECURSIVE Stages(_)
Stages(seq) ==
  IF seq = <<>> THEN <<>>
  ELSE LET rest == Stages(Tail(seq))
           st == StageOf(Head(seq))
       IN IF st = "report" \/ (rest # <<>> /\ Head(rest) = st)
            THEN rest
            ELSE <<st>> \o rest

FiveStages ==
  <<"data loader", "preprocessor", "model builder", "trainer", "exporter">>

Training == {"mnist", "train"}

\* fs holds nothing a script other than s writes.
NoOtherOutput(s, fs) ==
  CASE s = "mnist" ->
         fs.public_model.json.kind = "absent" /\ fs.public_model.bin.kind = "absent"
    [] s = "train" ->
         /\ fs.model_h5.kind = "absent"
         /\ fs.public_model.json.exporter # "convert"
         /\ fs.public_model.bin.exporter # "convert"
    [] s = "convert" ->
         /\ fs.model_h5.kind = "absent"
         /\ fs.public_model.json.exporter # "train"
         /\ fs.public_model.bin.exporter # "train"
    [] OTHER -> TRUE

(***************************************************************************)
(* Properties.                                                             *)
(***************************************************************************)

\* C1: whenever mnist.py has reached its final print or run to completion, a
\* checkpoint file exists at mnist_model/model.h5, whatever the directory
\* held when the run started.
C1_CheckpointAfterMnist ==
  (script = "mnist" /\ (Step = "print" \/ status = "done")) =>
     /\ mnist_model
     /\ model_h5.kind = "h5"

C1_Witness ==
  /\ script = "mnist"
  /\ status = "done"
  /\ ~start.mnist_model
  /\ model_h5.kind = "h5"

\* C2: whenever convert_model.py, started with a valid checkpoint at
\* mnist_model/model.h5, has run to completion, public/model exists and holds
\* a topology descriptor (model.json) and at least one weight file.
C2_ConvertedArtifacts ==
  (script = "convert" /\ status = "done" /\ start.model_h5.kind = "h5") =>
     /\ public_model.dir
     /\ public_model.json.kind = "tfjs"
     /\ public_model.bin.kind = "tfjs"
     /\ public_model.bin.shards >= 1

C2_Witness ==
  /\ script = "convert"
  /\ status = "done"
  /\ start.model_h5.kind = "h5"
  /\ ~start.public_model.dir
  /\ public_model.bin.shards >= 1

\* C3: a step that fails ends the run in the failed state at that step: the
\* steps before it ran once each, no later step runs, the failed step is not
\* entered again, and only the start of a new run follows.
C3_FailStop ==
  /\ [](err # "none" =>
          /\ status = "failed"
          /\ pc <= Len(Program(script))
          /\ trace = SubSeq(Program(script), 1, pc))
  /\ [][err # "none" => (run' = run + 1 /\ trace' = <<>> /\ UNCHANGED fsvars)]_vars

C3_Witness ==
  /\ status = "failed"
  /\ err = "lib"
  /\ Program(script)[pc] = "fit"
  /\ model.epochs = 1

\* C4: in a training script the steps run in the order load data, preprocess,
\* build and compile, train, export, each at most once, and the export runs
\* only after all passes (3 in mnist.py, 5 in train_mnist_model.py): no
\* checkpoint or export of a training script holds a model trained less.
C4_TrainBeforeExport ==
  /\ script \in Training =>
       /\ NoDup(trace)
       /\ IsPrefix(Stages(trace), FiveStages)
       /\ (InTrace("save") \/ InTrace("save_keras_model")) =>
            (model.epochs = Epochs(script) /\ epoch = 0)
  /\ model_h5.kind = "h5" => model_h5.epochs = EpochsMnist
  /\ \A f \in {public_model.json, public_model.bin} :
       f.exporter = "train" => f.epochs = EpochsTrain

C4_Witness ==
  /\ script = "train"
  /\ status = "done"
  /\ public_model.json.by = run
  /\ public_model.json.epochs = EpochsTrain

\* C5 as stated: started in a directory that holds no output of the other
\* scripts, every script completes unless a library call itself fails.
C5_Original ==
  (NoOtherOutput(script, start) /\ status = "failed") => err = "lib"

\* C5 amended: started in a directory that holds no output of the other
\* scripts, mnist.py and train_mnist_model.py fail only when a library call
\* fails; convert_model.py never completes there: it fails in load_model for
\* want of the checkpoint mnist.py writes.
C5_SelfContainedTraining ==
  /\ (script \in Training /\ NoOtherOutput(script, start) /\ status = "failed") =>
       err = "lib"
  /\ (script = "convert" /\ NoOtherOutput(script, start)) =>
       /\ status # "done"
       /\ status = "failed" => (err = "input" /\ trace = <<"load_model">>)

C5_Witness ==
  /\ script = "convert"
  /\ NoOtherOutput(script, start)
  /\ status = "failed"
  /\ err = "input"

\* C6 as stated: every script goes through the five stages data loader,
\* preprocessor, model builder, trainer, exporter, in that order.
C6_Original == status = "done" => Stages(trace) = FiveStages

\* C6 amended: mnist.py and train_mnist_model.py go through the five stages
\* in that order; convert_model.py goes through a checkpoint load and the
\* exporter only.
C6_TrainingPipelines ==
  status = "done" =>
    Stages(trace) = IF script = "convert"
                      THEN <<"checkpoint loader", "exporter">>
                      ELSE FiveStages

C6_Witness ==
  /\ script = "convert"
  /\ status = "done"
  /\ Stages(trace) = <<"checkpoint loader", "exporter">>

\* C8: started without a checkpoint at mnist_model/model.h5, convert_model.py
\* fails in load_model and leaves the file system as it found it.
C8_NoInputNoOutput ==
  (script = "convert" /\ start.model_h5.kind # "h5") =>
     /\ FS = start
     /\ status # "done"
     /\ status = "failed" => (err = "input" /\ trace = <<"load_model">>)

C8_Witness ==
  /\ script = "convert"
  /\ start.model_h5.kind = "absent"
  /\ ~start.public_model.dir
  /\ status = "failed"

C10_LastExportWins ==
  /\ [](( ~anyFailed /\ status = "done" /\ lastExport.exporter # "none") =>
          /\ public_model.dir
          /\ public_model.json.kind = "tfjs"
          /\ public_model.bin = public_model.json
          /\ public_model.json.exporter = lastExport.exporter
          /\ public_model.json.by = lastExport.by
          /\ public_model.json.arch = Arch(lastExport.exporter)
          /\ public_model.json.epochs =
               IF lastExport.exporter = "train" THEN EpochsTrain ELSE EpochsMnist)
  /\ [][/\ script' = "mnist" => public_model' = public_model
        /\ script' = "convert" => (model_h5' = model_h5 /\ mnist_model' = mnist_model)]_vars

C10_Witness ==
  /\ ~anyFailed
  /\ status = "done"
  /\ script = "convert"
  /\ start.public_model.json.exporter = "train"
  /\ start.public_model.json.by >= 1
  /\ public_model.json.by = run

====
